---- MODULE Spec2Model ----
(***************************************************************************)
(* Model of the PDF text marker (src/pdf_text_marker.py): the rule-based   *)
(* line classifier (HierarchyDetector), the marker inserter                *)
(* (TextMarker.mark_text) and configuration loading (load_config).         *)
(*                                                                         *)
(* Text is modelled by TLA+ strings over ASCII; the regular expressions of *)
(* the source are written as syntax trees and matched by a small           *)
(* backtracking-free matcher that computes the set of possible end         *)
(* positions, which decides re.match / re.search exactly.                  *)
(***************************************************************************)
EXTENDS Integers, Sequences, FiniteSets, TLC

(***************************************************************************)
(* Python str primitives                                                   *)
(***************************************************************************)
\* the one-character string at position i (1-based), "" outside the text
Chr(t, i) == IF 1 <= i /\ i <= Len(t) THEN SubSeq(t, i, i) ELSE ""

CharsOf(s) == { Chr(s, i) : i \in 1..Len(s) }

UpperChars == "ABCDEFGHIJKLMNOPQRSTUVWXYZ"
LowerChars == "abcdefghijklmnopqrstuvwxyz"
DigitChars == "0123456789"

UPPER == CharsOf(UpperChars)
LOWER == CharsOf(LowerChars)
DIGIT == CharsOf(DigitChars)
\* characters matched by \s and removed by str.strip()
SPACE == {" ", "\t", "\n", "\r", "\f"}

\* TLC keeps strings in ASCII: one cased letter outside ASCII (U+00D6 and
\* U+00F6, O with diaeresis) is written @ in upper case and % in lower
\* case; str.upper, str.lower and str.isupper treat it as a letter, the
\* classes [A-Z] and [a-z] of a regular expression do not contain it
NonAsciiUpper == "@"
NonAsciiLower == "%"

ToUpperChr(c) ==
    IF c \in LOWER
    THEN Chr(UpperChars, CHOOSE i \in 1..26 : Chr(LowerChars, i) = c)
    ELSE IF c = NonAsciiLower THEN NonAsciiUpper
    ELSE c

ToLowerChr(c) ==
    IF c \in UPPER
    THEN Chr(LowerChars, CHOOSE i \in 1..26 : Chr(UpperChars, i) = c)
    ELSE IF c = NonAsciiUpper THEN NonAsciiLower
    ELSE c

RECURSIVE str_upper(_)
str_upper(t) ==
    IF t = "" THEN "" ELSE ToUpperChr(Head(t)) \o str_upper(Tail(t))

\* str.isupper(): at least one cased character and no lower-case one
str_isupper(t) ==
    /\ \E i \in 1..Len(t) : Chr(t, i) \in UPPER \cup {NonAsciiUpper}
    /\ \A i \in 1..Len(t) : Chr(t, i) \notin LOWER \cup {NonAsciiLower}

\* str.strip()
str_strip(t) ==
    LET keep == { i \in 1..Len(t) : Chr(t, i) \notin SPACE }
    IN  IF keep = {} THEN ""
        ELSE SubSeq(t, CHOOSE i \in keep : \A j \in keep : i <= j,
                       CHOOSE i \in keep : \A j \in keep : i >= j)

\* str.split() with no argument: the maximal runs of non-whitespace
RECURSIVE SplitFrom(_, _, _, _)
SplitFrom(t, i, cur, acc) ==
    IF i > Len(t)
    THEN IF cur = "" THEN acc ELSE Append(acc, cur)
    ELSE IF Chr(t, i) \in SPACE
         THEN SplitFrom(t, i + 1, "", IF cur = "" THEN acc ELSE Append(acc, cur))
         ELSE SplitFrom(t, i + 1, cur \o Chr(t, i), acc)

\* the variant str.split(' '): every single blank separates, so that
\* adjacent blanks yield empty words
RECURSIVE SplitOnBlankFrom(_, _, _, _)
SplitOnBlankFrom(t, i, cur, acc) ==
    IF i > Len(t)
    THEN Append(acc, cur)
    ELSE IF Chr(t, i) = " "
         THEN SplitOnBlankFrom(t, i + 1, "", Append(acc, cur))
         ELSE SplitOnBlankFrom(t, i + 1, cur \o Chr(t, i), acc)

str_split_blank(t) == SplitOnBlankFrom(t, 1, "", <<>>)

str_split(t) == SplitFrom(t, 1, "", <<>>)

(***************************************************************************)
(* Regular expressions (Python re)                                         *)
(***************************************************************************)
\* hi = -1 stands for an unbounded repetition
Cls(S, lo, hi)    == [k |-> "c", neg |-> FALSE, set |-> S, lo |-> lo, hi |-> hi]
NotCls(S, lo, hi) == [k |-> "c", neg |-> TRUE,  set |-> S, lo |-> lo, hi |-> hi]
Dot(lo, hi)       == NotCls({"\n"}, lo, hi)
Lit(s)            == [k |-> "l", s |-> s]
Grp(body, lo, hi) == [k |-> "g", body |-> body, lo |-> lo, hi |-> hi]
Alt(alts)         == [k |-> "a", alts |-> alts]
StartAnchor       == [k |-> "^"]
EndAnchor         == [k |-> "$"]
Opt(c)            == Cls({c}, 0, 1)
Ws(lo, hi)        == Cls(SPACE, lo, hi)
Dig(lo, hi)       == Cls(DIGIT, lo, hi)

\* membership of one character in a class, under re.IGNORECASE when ic
InCls(c, n, ic) ==
    LET hit == IF ic
               THEN \/ c \in n.set
                    \/ ToUpperChr(c) \in n.set
                    \/ ToLowerChr(c) \in n.set
               ELSE c \in n.set
    IN  IF n.neg THEN ~hit ELSE hit

RECURSIVE str_lower(_)
str_lower(t) ==
    IF t = "" THEN "" ELSE ToLowerChr(Head(t)) \o str_lower(Tail(t))

LitAt(s, t, i, ic) ==
    /\ i + Len(s) - 1 <= Len(t)
    /\ IF ic
       THEN str_lower(SubSeq(t, i, i + Len(s) - 1)) = str_lower(s)
       ELSE SubSeq(t, i, i + Len(s) - 1) = s

\* end positions of a class repeated lo..hi times from position i
ClsEnds(n, t, i, ic) ==
    LET cap == IF n.hi = -1 THEN Len(t) - i + 1
               ELSE IF n.hi < Len(t) - i + 1 THEN n.hi ELSE Len(t) - i + 1
    IN  { i + m : m \in { m \in n.lo..cap :
                          \A q \in i..(i + m - 1) : InCls(Chr(t, q), n, ic) } }

RECURSIVE MatchSeq(_, _, _, _), MatchRep(_, _, _, _, _, _, _), MatchNode(_, _, _, _)
\* the set of positions at which a match of the node can end, having
\* started at some position of S
MatchNode(n, t, S, ic) ==
    CASE n.k = "c" -> UNION { ClsEnds(n, t, i, ic) : i \in S }
      [] n.k = "l" -> { i + Len(n.s) : i \in { j \in S : LitAt(n.s, t, j, ic) } }
      [] n.k = "^" -> S \cap {1}
      [] n.k = "$" -> S \cap {Len(t) + 1}
      [] n.k = "g" -> MatchRep(n.body, t, S, n.lo, n.hi, 0, ic)
      [] n.k = "a" -> UNION { MatchSeq(n.alts[b], t, S, ic) : b \in DOMAIN n.alts }

MatchRep(body, t, S, lo, hi, cnt, ic) ==
    IF S = {} THEN {}
    ELSE (IF cnt >= lo THEN S ELSE {})
         \cup (IF (hi # -1 /\ cnt >= hi) \/ cnt > Len(t) THEN {}
               ELSE MatchRep(body, t, MatchSeq(body, t, S, ic), lo, hi, cnt + 1, ic))

MatchSeq(re, t, S, ic) ==
    IF re = <<>> \/ S = {} THEN S
    ELSE MatchSeq(Tail(re), t, MatchNode(Head(re), t, S, ic), ic)

\* re.match: anchored at the start; re.search: at any position
re_match(re, t, ic)  == MatchSeq(re, t, {1}, ic) # {}
re_search(re, t, ic) == MatchSeq(re, t, 1..(Len(t) + 1), ic) # {}

(***************************************************************************)
(* MarkerConfig: the default rule set                                      *)
(***************************************************************************)
\* font sizes are in tenths of a point (10.5 is 105)
l1_min_font_size_default == 120
l2_min_font_size_default == 105
l3_min_font_size_default == 100
min_line_length_default  == 3

\* the leading "[~]?(\d{4})[\*]?" shared by the code expressions
CodeHead == <<StartAnchor, Opt("~"), Dig(4, 4), Opt("*")>>

\* r'^[~]?(\d{4})[\*]?\s+'
code_pattern == CodeHead \o <<Ws(1, -1)>>

\* r'\.{3,}\s*([\d,]+\.\d{2})'
fee_pattern ==
    <<Cls({"."}, 3, -1), Ws(0, -1), Cls(DIGIT \cup {","}, 1, -1), Lit("."), Dig(2, 2)>>

\* r'^[~]?(\d{4})[\*]?\s+.+?\.{3,}\s*[\d,]+\.\d{2}'
code_with_fee_pattern == code_pattern \o <<Dot(1, -1)>> \o fee_pattern

\* r'[A-Z]-\d+'
PageRef == <<Cls(UPPER, 1, 1), Lit("-"), Dig(1, -1)>>

skip_patterns == <<
    <<StartAnchor, Lit("April 1,"), Ws(0, -1), Dig(4, 4)>>,
    <<StartAnchor>> \o PageRef \o <<EndAnchor>>,
    <<StartAnchor, Dig(1, 3), EndAnchor>>,
    <<StartAnchor, Cls(CharsOf("ivxlcdm"), 1, -1), EndAnchor>>,
    <<StartAnchor, Lit("Table of Contents")>>,
    <<StartAnchor, Lit("\f")>> >>

content_start_patterns == <<
    <<Lit("RULES"), Ws(1, -1), Lit("OF"), Ws(1, -1), Lit("APPLICATION")>>,
    <<Lit("These benefits cannot be correctly interpreted")>> >>

\* the tier pattern lists, as the strings MarkerConfig holds
l1_patterns_default == <<
    "^[A-Z][A-Z\\s\\-]+\\s*\\(\\d{2}(?:-\\d+)?\\)",
    "^[A-Z][A-Z\\s\\-]{10,}$",
    "^(?:VISITS|GENERAL|ANESTHESIA|INTEGUMENTARY|MUSCULOSKELETAL)",
    "^(?:RESPIRATORY|CARDIOVASCULAR|DIGESTIVE|URINARY)",
    "^(?:NERVOUS|ENDOCRINE|MATERNITY|LABORATORY)" >>

l2_patterns_default == <<
    "^[A-Z][a-z]+(?:\\s+[A-Z][a-z]+)*\\s*(?:Procedures?|Care|Visits?|Services?)",
    "^(?:Office|Hospital|Virtual|Chronic|Concomitant)",
    "^(?:Investigation|Incision|Excision|Repair)" >>

l3_patterns_default == << "^[A-Z][a-z]+(?:\\s+[A-Za-z]+)*$" >>

DefaultConfig ==
    [ l1_min_font_size |-> l1_min_font_size_default,
      l2_min_font_size |-> l2_min_font_size_default,
      l3_min_font_size |-> l3_min_font_size_default,
      l1_patterns      |-> l1_patterns_default,
      l2_patterns      |-> l2_patterns_default,
      l3_patterns      |-> l3_patterns_default,
      min_line_length  |-> min_line_length_default,
      ill_typed        |-> {},
      uncompilable     |-> {} ]

\* some pattern of the list is found in the text
AnySearch(pats, t, ic) == \E p \in DOMAIN pats : re_search(pats[p], t, ic)

\* '(?:a|b|...)' over literal words
Words(ws) == Alt([i \in DOMAIN ws |-> <<Lit(ws[i])>>])

\* re.compile on the expressions a configuration of the model can hold in
\* its tier pattern lists
re_compile(p) ==
    CASE p = "^[A-Z][A-Z\\s\\-]+\\s*\\(\\d{2}(?:-\\d+)?\\)" ->
           <<StartAnchor, Cls(UPPER, 1, 1), Cls(UPPER \cup SPACE \cup {"-"}, 1, -1),
             Ws(0, -1), Lit("("), Dig(2, 2), Grp(<<Lit("-"), Dig(1, -1)>>, 0, 1),
             Lit(")")>>
      [] p = "^[A-Z][A-Z\\s\\-]{10,}$" ->
           <<StartAnchor, Cls(UPPER, 1, 1), Cls(UPPER \cup SPACE \cup {"-"}, 10, -1),
             EndAnchor>>
      [] p = "^(?:VISITS|GENERAL|ANESTHESIA|INTEGUMENTARY|MUSCULOSKELETAL)" ->
           <<StartAnchor,
             Words(<<"VISITS", "GENERAL", "ANESTHESIA", "INTEGUMENTARY", "MUSCULOSKELETAL">>)>>
      [] p = "^(?:RESPIRATORY|CARDIOVASCULAR|DIGESTIVE|URINARY)" ->
           <<StartAnchor, Words(<<"RESPIRATORY", "CARDIOVASCULAR", "DIGESTIVE", "URINARY">>)>>
      [] p = "^(?:NERVOUS|ENDOCRINE|MATERNITY|LABORATORY)" ->
           <<StartAnchor, Words(<<"NERVOUS", "ENDOCRINE", "MATERNITY", "LABORATORY">>)>>
      [] p = "^[A-Z][a-z]+(?:\\s+[A-Z][a-z]+)*\\s*(?:Procedures?|Care|Visits?|Services?)" ->
           <<StartAnchor, Cls(UPPER, 1, 1), Cls(LOWER, 1, -1),
             Grp(<<Ws(1, -1), Cls(UPPER, 1, 1), Cls(LOWER, 1, -1)>>, 0, -1),
             Ws(0, -1),
             Alt(<< <<Lit("Procedure"), Opt("s")>>, <<Lit("Care")>>,
                    <<Lit("Visit"), Opt("s")>>, <<Lit("Service"), Opt("s")>> >>)>>
      [] p = "^(?:Office|Hospital|Virtual|Chronic|Concomitant)" ->
           <<StartAnchor, Words(<<"Office", "Hospital", "Virtual", "Chronic", "Concomitant">>)>>
      [] p = "^(?:Investigation|Incision|Excision|Repair)" ->
           <<StartAnchor, Words(<<"Investigation", "Incision", "Excision", "Repair">>)>>
      [] p = "^[A-Z][a-z]+(?:\\s+[A-Za-z]+)*$" ->
           <<StartAnchor, Cls(UPPER, 1, 1), Cls(LOWER, 1, -1),
             Grp(<<Ws(1, -1), Cls(UPPER \cup LOWER, 1, -1)>>, 0, -1), EndAnchor>>
      [] p = "^\\d{4}\\s" ->
           <<StartAnchor, Dig(4, 4), Ws(1, 1)>>
      [] p = "B-\\d+$" ->
           <<Lit("B-"), Dig(1, -1), EndAnchor>>

CompileAll(pats) == [i \in DOMAIN pats |-> re_compile(pats[i])]

(***************************************************************************)
(* HierarchyDetector                                                       *)
(***************************************************************************)
\* len(text) < min_line_length raises TypeError when the configured value
\* is not a number
should_skip_raises(line, cfg) == "min_line_length" \in cfg.ill_typed

should_skip(line, cfg) ==
    LET text == str_strip(line.text)
    IN  \/ Len(text) < cfg.min_line_length
        \/ AnySearch(skip_patterns, text, TRUE)

\* group(2) of r'^[~]?(\d{4})[\*]?\s+(.+)$': the greedy \s+ takes the
\* longest run that leaves a non-empty rest
DescriptionStart(text) ==
    LET cand == { j \in MatchSeq(code_pattern, text, {1}, FALSE) :
                    MatchSeq(<<Dot(1, -1), EndAnchor>>, text, {j}, FALSE) # {} }
    IN  IF cand = {} THEN 0 ELSE CHOOSE j \in cand : \A q \in cand : j >= q

remaining_of(text) ==
    str_strip(SubSeq(text, DescriptionStart(text), Len(text)))

\* _is_tariff_code with a description of 10 characters accepted
_is_tariff_code_AtLeast10(text0) ==
    LET text == str_strip(text0)
    IN  IF re_match(code_with_fee_pattern, text, FALSE) THEN TRUE
        ELSE IF re_match(CodeHead \o <<Ws(0, -1), EndAnchor>>, text, FALSE) THEN TRUE
        ELSE IF DescriptionStart(text) # 0
             THEN LET remaining == remaining_of(text)
                  IN  IF re_match(<<StartAnchor, Cls({"."}, 3, -1), Ws(0, -1)>> \o PageRef,
                                  remaining, FALSE)
                      THEN FALSE
                      ELSE IF re_match(<<StartAnchor>> \o PageRef
                                         \o <<Grp(<<Lit(","), Ws(0, -1)>> \o PageRef, 0, -1),
                                              Ws(0, -1), EndAnchor>>,
                                       remaining, FALSE)
                      THEN FALSE
                      ELSE Len(remaining) >= 10
             ELSE FALSE

_is_tariff_code(text0) ==
    LET text == str_strip(text0)
    IN  IF re_match(code_with_fee_pattern, text, FALSE) THEN TRUE
        ELSE IF re_match(CodeHead \o <<Ws(0, -1), EndAnchor>>, text, FALSE) THEN TRUE
        ELSE IF DescriptionStart(text) # 0
             THEN LET remaining == remaining_of(text)
                  IN  IF re_match(<<StartAnchor, Cls({"."}, 3, -1), Ws(0, -1)>> \o PageRef,
                                  remaining, FALSE)
                      THEN FALSE
                      ELSE IF re_match(<<StartAnchor>> \o PageRef
                                         \o <<Grp(<<Lit(","), Ws(0, -1)>> \o PageRef, 0, -1),
                                              Ws(0, -1), EndAnchor>>,
                                       remaining, FALSE)
                      THEN FALSE
                      ELSE Len(remaining) > 10
             ELSE FALSE

\* r'^[A-Z][A-Z\s\-/]+\s*\(\d{2}(?:-\d+)?\)\s*$'
SpecialtyHeading ==
    <<StartAnchor, Cls(UPPER, 1, 1), Cls(UPPER \cup SPACE \cup {"-", "/"}, 1, -1),
      Ws(0, -1), Lit("("), Dig(2, 2), Grp(<<Lit("-"), Dig(1, -1)>>, 0, 1), Lit(")"),
      Ws(0, -1), EndAnchor>>

\* '^A' and '^A\s+B'
Starts(a)       == <<StartAnchor, Lit(a)>>
Starts2(a, b)   == <<StartAnchor, Lit(a), Ws(1, -1), Lit(b)>>

major_sections == <<
    Starts("VISITS/EXAMINATIONS"),
    Starts2("GENERAL", "SCHEDULE"),
    Starts("ANESTHESIA"),
    Starts2("INTEGUMENTARY", "SYSTEM"),
    Starts2("MUSCULOSKELETAL", "SYSTEM"),
    Starts2("RESPIRATORY", "SYSTEM"),
    Starts2("CARDIOVASCULAR", "SYSTEM"),
    Starts2("DIGESTIVE", "SYSTEM"),
    Starts2("URINARY", "SYSTEM"),
    Starts2("NERVOUS", "SYSTEM"),
    Starts2("ENDOCRINE", "SYSTEM"),
    Starts("MATERNITY"),
    Starts("LABORATORY"),
    Starts2("DIAGNOSTIC", "RADIOLOGICAL"),
    Starts2("NUCLEAR", "MEDICINE"),
    Starts2("THERAPEUTIC", "RADIOLOGICAL"),
    <<StartAnchor, Lit("RULES"), Ws(1, -1), Lit("OF"), Ws(1, -1), Lit("APPLICATION")>> >>

_matches_l1(line, cfg) ==
    LET text == str_strip(line.text)
    IN  IF Len(text) > 80 THEN FALSE
        ELSE IF re_search(fee_pattern, text, FALSE) THEN FALSE
        ELSE IF re_match(code_pattern, text, FALSE) THEN FALSE
        ELSE IF re_search(SpecialtyHeading, text, FALSE) THEN TRUE
        ELSE IF AnySearch(major_sections, text, TRUE) THEN TRUE
        ELSE /\ line.font_size >= cfg.l1_min_font_size
             /\ str_isupper(text)
             /\ 15 < Len(text) /\ Len(text) < 60
             /\ 2 <= Len(str_split(text)) /\ Len(str_split(text)) <= 6

l2_specific == <<
    <<StartAnchor, Lit("Office"), Opt(","), Ws(0, -1), Lit("Home"), Ws(0, -1),
      Lit("Visit"), Opt("s")>>,
    Starts2("Hospital", "Care"),
    Starts2("Virtual", "Visit") \o <<Opt("s")>>,
    Starts2("Chronic", "Care"),
    Starts2("Concomitant", "Care"),
    Starts2("Cutaneous", "Procedure") \o <<Opt("s")>>,
    Starts2("Upper", "Extremity"),
    Starts2("Lower", "Extremity"),
    Starts("Spine"),
    <<StartAnchor, Lit("Head"), Ws(1, -1), Lit("and"), Ws(1, -1), Lit("Neck")>>,
    Starts("Pelvis"),
    Starts("Thorax"),
    Starts("Abdomen") >>

\* l2_words with text.split(' ') in place of text.split()
l2_words_SplitOnBlank(text) == str_split_blank(text)

\* the words of the line as _matches_l2 splits them
l2_words(text) == str_split(text)

\* w[0].isupper() and not w.isupper()
IsTitleWord(w) == str_isupper(Chr(w, 1)) /\ ~str_isupper(w)

\* the bold / title-case branch of _matches_l2 is entered
L2BoldBranch(line, cfg) ==
    LET text == str_strip(line.text)
    IN  /\ line.is_bold
        /\ line.font_size >= cfg.l2_min_font_size
        /\ 2 <= Len(l2_words(text)) /\ Len(l2_words(text)) <= 5

\* L2Rejected with the length test alone
L2Rejected_LengthOnly(line) == Len(str_strip(line.text)) > 60

L2Rejected(line) ==
    LET text == str_strip(line.text)
    IN  \/ Len(text) > 60
        \/ re_search(fee_pattern, text, FALSE)
        \/ re_match(code_pattern, text, FALSE)

\* w[0] raises IndexError on an empty word
_matches_l2_raises(line, cfg) ==
    LET text == str_strip(line.text)
    IN  /\ ~L2Rejected(line)
        /\ ~AnySearch(l2_specific, text, TRUE)
        /\ L2BoldBranch(line, cfg)
        /\ \E w \in DOMAIN l2_words(text) : l2_words(text)[w] = ""

_matches_l2(line, cfg) ==
    LET text  == str_strip(line.text)
        words == l2_words(text)
    IN  IF L2Rejected(line) THEN FALSE
        ELSE IF AnySearch(l2_specific, text, TRUE) THEN TRUE
        ELSE /\ L2BoldBranch(line, cfg)
             /\ 2 * Cardinality({ w \in DOMAIN words : IsTitleWord(words[w]) })
                  >= Len(words)

\* '^A$' and '^As?$'
Whole(a)     == <<StartAnchor, Lit(a), EndAnchor>>
WholePl(a)   == <<StartAnchor, Lit(a), Opt("s"), EndAnchor>>

l3_specific == <<
    Whole("Investigation"),
    Whole("Incision"),
    Whole("Excision"),
    Whole("Repair"),
    <<StartAnchor, Lit("Revision"), Ws(1, -1), Lit("and"), Ws(1, -1), Lit("Repair"),
      EndAnchor>>,
    Whole("Reconstruction"),
    Whole("Amputation"),
    WholePl("Fracture"),
    WholePl("Dislocation"),
    <<StartAnchor, Lit("Joint"), Ws(1, -1), Lit("Procedure"), Opt("s"), EndAnchor>> >>

\* _matches_l3 with the configured list and font threshold in place of
\* the catalogue
_matches_l3_Configured(line, cfg) ==
    LET text == str_strip(line.text)
    IN  IF Len(text) > 40 \/ re_search(fee_pattern, text, FALSE) THEN FALSE
        ELSE IF re_match(code_pattern, text, FALSE) THEN FALSE
        ELSE /\ AnySearch(CompileAll(cfg.l3_patterns), text, TRUE)
             /\ line.font_size >= cfg.l3_min_font_size

_matches_l3(line, cfg) ==
    LET text == str_strip(line.text)
    IN  IF Len(text) > 40 \/ re_search(fee_pattern, text, FALSE) THEN FALSE
        ELSE IF re_match(code_pattern, text, FALSE) THEN FALSE
        ELSE AnySearch(l3_specific, text, TRUE)

\* detect_level with the L2 test placed before the L1 test
detect_level_L2First(line, cfg) ==
    IF _is_tariff_code(str_strip(line.text)) THEN "CODE"
    ELSE IF _matches_l2_raises(line, cfg) THEN "RAISE"
    ELSE IF _matches_l2(line, cfg) THEN "L2"
    ELSE IF _matches_l1(line, cfg) THEN "L1"
    ELSE IF _matches_l3(line, cfg) THEN "L3"
    ELSE "NONE"

\* detect_level with the last tier test answering 'L4'
detect_level_L3AsL4(line, cfg) ==
    IF _is_tariff_code(str_strip(line.text)) THEN "CODE"
    ELSE IF _matches_l1(line, cfg) THEN "L1"
    ELSE IF _matches_l2_raises(line, cfg) THEN "RAISE"
    ELSE IF _matches_l2(line, cfg) THEN "L2"
    ELSE IF _matches_l3(line, cfg) THEN "L4"
    ELSE "NONE"

\* the result of detect_level; "NONE" is Python's None and "RAISE" an
\* exception leaving the call
detect_level(line, cfg) ==
    IF _is_tariff_code(str_strip(line.text)) THEN "CODE"
    ELSE IF _matches_l1(line, cfg) THEN "L1"
    ELSE IF _matches_l2_raises(line, cfg) THEN "RAISE"
    ELSE IF _matches_l2(line, cfg) THEN "L2"
    ELSE IF _matches_l3(line, cfg) THEN "L3"
    ELSE "NONE"

\* extract_code_info with only the standalone form
extract_code_info_StandaloneOnly(text0) ==
    LET text == str_strip(text0)
        at   == IF Chr(text, 1) = "~" THEN 2 ELSE 1
        info == << [ code           |-> SubSeq(text, at, at + 3),
                     is_provisional |-> Chr(text, 1) = "~",
                     is_asterisked  |-> Chr(text, at + 4) = "*" ] >>
    IN  IF re_match(CodeHead \o <<Ws(0, -1), EndAnchor>>, text, FALSE) THEN info
        ELSE <<>>

\* extract_code_info: <<>> is None, otherwise the one-element sequence of
\* the CodeInfo record
extract_code_info(text0) ==
    LET text == str_strip(text0)
        at   == IF Chr(text, 1) = "~" THEN 2 ELSE 1
        info == << [ code           |-> SubSeq(text, at, at + 3),
                     is_provisional |-> Chr(text, 1) = "~",
                     is_asterisked  |-> Chr(text, at + 4) = "*" ] >>
    IN  IF re_match(CodeHead \o <<Ws(0, -1), EndAnchor>>, text, FALSE) THEN info
        ELSE IF re_match(code_pattern, text, FALSE) THEN info
        ELSE <<>>

(***************************************************************************)
(* load_config                                                             *)
(***************************************************************************)
\* what --config names: no option at all, a path that does not exist, a
\* file that cannot be opened, a file that is not JSON, a JSON object with
\* a key MarkerConfig does not have, one with a value of the wrong type,
\* and a well-formed one
ConfigFiles ==
    {"none", "missing", "unreadable", "invalid_json", "unknown_key", "ill_typed", "valid"}

\* the fields of MarkerConfig that hold regular expressions
PatternFields ==
    {"l1_patterns", "l2_patterns", "l3_patterns", "skip_patterns", "code_pattern",
     "code_with_fee_pattern", "fee_pattern", "content_start_patterns"}

\* a well-formed file that sets one pattern field to an expression
\* re.compile rejects, such as {"fee_pattern": "("}
BadPatternFile(field) == "bad_" \o field

BadPatternFiles == { BadPatternFile(f) : f \in PatternFields }

\* the well-formed file of the model: {"min_line_length": 5, "l2_min_font_size": 12.5}
CustomConfig ==
    [DefaultConfig EXCEPT !.min_line_length = 5, !.l2_min_font_size = 125]

\* the ill-typed file of the model: {"min_line_length": "3"}; the dataclass
\* stores the value unchecked
IllTypedConfig == [DefaultConfig EXCEPT !.ill_typed = {"min_line_length"}]

\* the dataclass stores a pattern as it is: nothing is compiled here
BadPatternConfig(field) == [DefaultConfig EXCEPT !.uncompilable = {field}]

NoConfig == [ill_typed |-> {"unset"}]

\* the outcome of load_config: the configuration returned, or the
\* exception that leaves the call
load_config(file) ==
    IF file \in {"none", "missing"}
    THEN [raised |-> "", config |-> DefaultConfig]
    ELSE IF file = "unreadable"
    THEN [raised |-> "PermissionError", config |-> NoConfig]
    ELSE IF file = "invalid_json"
    THEN [raised |-> "JSONDecodeError", config |-> NoConfig]
    ELSE IF file = "unknown_key"
    THEN [raised |-> "TypeError", config |-> NoConfig]
    ELSE IF file = "ill_typed"
    THEN [raised |-> "", config |-> IllTypedConfig]
    ELSE IF file \in BadPatternFiles
    THEN [raised |-> "",
          config |-> BadPatternConfig(CHOOSE f \in PatternFields : file = BadPatternFile(f))]
    ELSE [raised |-> "", config |-> CustomConfig]

(***************************************************************************)
(* TextMarker helpers                                                      *)
(***************************************************************************)
\* re.sub(cls, '', t) for a one-character class (or a run of them)
RECURSIVE RemoveCls(_, _)
RemoveCls(t, n) ==
    IF t = "" THEN ""
    ELSE (IF InCls(Head(t), n, FALSE) THEN "" ELSE Head(t)) \o RemoveCls(Tail(t), n)

\* re.sub(re, '', t) for an expression that ends with '$': the leftmost
\* match runs to the end of the text
SubToEnd(re, t) ==
    LET starts == { i \in 1..(Len(t) + 1) : MatchSeq(re, t, {i}, FALSE) # {} }
    IN  IF starts = {} THEN t
        ELSE SubSeq(t, 1, (CHOOSE i \in starts : \A j \in starts : i <= j) - 1)

\* TLC keeps strings in ASCII: the guillemets that delimit a marker
\* (U+00AB and U+00BB in the source) are written << and >>
LAQUO == "<<"
RAQUO == ">>"

\* _format_marker without the second re.sub: only whitespace is removed
_format_marker_SpacesOnly(lvl, text) ==
    LAQUO \o lvl \o ":" \o RemoveCls(str_upper(text), Ws(1, -1)) \o RAQUO

\* marker_format '<<{type}:{value}>>'
_format_marker(lvl, text) ==
    LET clean1 == RemoveCls(str_upper(text), Ws(1, -1))
        clean2 == RemoveCls(clean1, NotCls(UPPER \cup DIGIT, 1, 1))
    IN  LAQUO \o lvl \o ":" \o clean2 \o RAQUO

\* code_marker_format '<<CODE:{prefix}{code}{suffix}>>'
_format_code_marker(code, is_provisional, is_asterisked) ==
    LAQUO \o "CODE:" \o (IF is_provisional THEN "~" ELSE "") \o code
          \o (IF is_asterisked THEN "*" ELSE "") \o RAQUO

_clean_header_text(text) ==
    LET t1 == SubToEnd(<<Cls({"."}, 2, -1), Dot(0, -1), EndAnchor>>, text)
        t2 == SubToEnd(<<Ws(1, -1)>> \o PageRef \o <<EndAnchor>>, t1)
    IN  str_strip(t2)

(***************************************************************************)
(* Input lines of the model                                                *)
(***************************************************************************)
MaxLines == 4

TextLine(text, font_size, is_bold) ==
    [text |-> text, font_size |-> font_size, is_bold |-> is_bold]

\* the lines a document of the model is made of
LineSet ==
    { TextLine("RULES OF APPLICATION", 120, TRUE),
      TextLine("APRIL 1, 2024 RULES OF APPLICATION", 120, TRUE),
      TextLine("123", 100, FALSE),
      TextLine("", 100, FALSE),
      TextLine("text", 100, FALSE),
      TextLine("~0171*", 100, FALSE),
      TextLine("8540 Complete History and Physical Examination", 100, FALSE),
      TextLine("NEUROLOGY (01-1)", 120, TRUE),
      TextLine("Spine ..... B-12", 100, FALSE),
      TextLine("Sj%gren  Syndrome", 120, TRUE),
      TextLine("Incision", 100, FALSE) }

\* texts on which the detector is probed directly
ProbeTexts ==
    { "", "  ", "12", "123", "1234", "A-1", "xiv", "text",
      "RULES OF APPLICATION", "Rules of Application",
      "8540 Complete History and Physical Examination", "~0171*", "  ~0171  ",
      "8540*", "8540 ab....1.00", "8541 abcdefghij", "8542 abcdefghijk",
      "8543 ....... A-1", "8544 C-19, D-12", "~8545* Office visit ......... 1,112.42",
      "NEUROLOGY (01-1)", "Maternity Care", "Hospital Care", "Spine ..... B-12",
      "Joint  Procedures", "Incision", "Revision and Repair", "Table of Contents",
      "CARDIOVASCULAR SURGERY NOTES", "Consultation fee ........ 112.42",
      "Big  Word", "plain text here",
      "APRIL 1, 2024 RULES OF APPLICATION", "Sj%gren  Syndrome",
      "Spine ........ 112.42", "ANESTHESIA ..... 10.00", "~1234*  ABCDE FGH",
      "1234 Big Word",
      "ANESTHESIA AND RESUSCITATION SERVICES PROVIDED BY THE ATTENDING MEDICAL PRACTITIONER",
      "Hospital Care provided to a patient admitted under another doctor",
      "Joint                               Procedures",
      "The quick brown fox jumps over the lazy dog and keeps running far beyond the eighty character limit" }

ProbeLines ==
    { TextLine(t, f, b) : t \in ProbeTexts, f \in {100, 120}, b \in BOOLEAN }

ConfigSet == {DefaultConfig, CustomConfig, IllTypedConfig}

\* everything mark_text computes from one line alone
Analyse(line, cfg) ==
    [ starts      |-> AnySearch(content_start_patterns, line.text, FALSE),
      skip_raises |-> should_skip_raises(line, cfg),
      skip        |-> should_skip(line, cfg),
      level       |-> detect_level(line, cfg),
      code_info   |-> extract_code_info(line.text),
      header_text |-> _clean_header_text(line.text) ]

\* the fields the tier tests are documented to read
TierFields == {"l1_patterns", "l2_patterns", "l3_patterns", "l3_min_font_size"}

\* other values for them, as a caller of MarkerConfig(...) can give:
\* l1_patterns=[r'B-\d+$'], l2_patterns=[], l3_patterns=[r'^\d{4}\s'],
\* l3_min_font_size=14.0
OtherTierFields ==
    [ l1_patterns      |-> << "B-\\d+$" >>,
      l2_patterns      |-> << >>,
      l3_patterns      |-> << "^\\d{4}\\s" >>,
      l3_min_font_size |-> 140 ]

\* dataclasses.replace(cfg, ...) on the fields F
WithTierFields(cfg, F) ==
    [ f \in DOMAIN cfg |-> IF f \in F THEN OtherTierFields[f] ELSE cfg[f] ]

\* the configurations that differ from cfg in those fields only
TierVariants(cfg) == { WithTierFields(cfg, F) : F \in (SUBSET TierFields) \ {{}} }

TierVariantSet == TierVariants(DefaultConfig) \cup TierVariants(CustomConfig)

\* the classifier is pure: its results on the lines of the model are
\* tabulated once
Analysis ==
    [ cfg \in ConfigSet \cup TierVariantSet |->
        [ line \in (IF cfg \in ConfigSet THEN LineSet \cup ProbeLines ELSE LineSet) |->
            Analyse(line, cfg) ] ]

(***************************************************************************)
(* _calculate_stats                                                        *)
(***************************************************************************)
\* 'sub in s'
Contains(s, sub) ==
    \E i \in 1..(Len(s) - Len(sub) + 1) : SubSeq(s, i, i + Len(sub) - 1) = sub

StatKeys == {"L1", "L2", "L3", "L4", "CODE", "provisional", "asterisked"}

\* what one line adds to the counters
Increments(keys) == [k \in StatKeys |-> IF k \in keys THEN 1 ELSE 0]

\* the sub-counters of a line counted as CODE
CodeGlyphs(line) ==
    (IF Contains(line, LAQUO \o "CODE:~") THEN {"provisional"} ELSE {})
    \cup (IF Contains(line, "*" \o RAQUO) THEN {"asterisked"} ELSE {})

\* stat_line with an 'if' for every test in place of the elif chain
stat_line_Independent(line) ==
    Increments(
        { t \in {"L1", "L2", "L3", "L4", "CODE"} : Contains(line, LAQUO \o t \o ":") }
        \cup (IF Contains(line, LAQUO \o "CODE:") THEN CodeGlyphs(line) ELSE {}))

\* the body of the loop of _calculate_stats: the if/elif chain on one line
stat_line(line) ==
    IF Contains(line, LAQUO \o "L1:") THEN Increments({"L1"})
    ELSE IF Contains(line, LAQUO \o "L2:") THEN Increments({"L2"})
    ELSE IF Contains(line, LAQUO \o "L3:") THEN Increments({"L3"})
    ELSE IF Contains(line, LAQUO \o "L4:") THEN Increments({"L4"})
    ELSE IF Contains(line, LAQUO \o "CODE:") THEN Increments({"CODE"} \cup CodeGlyphs(line))
    ELSE Increments({})

\* lines on which _calculate_stats is probed directly
StatProbeTexts ==
    { "text", "<<L1:NEUROLOGY011>>", "<<L4:X>>",
      "<<CODE:8540>>", "<<CODE:~0171*>>", "<<CODE:~8545>>", "<<CODE:8540*>>",
      "see <<L2:A>> and <<CODE:~1234*>>", "<<CODE:1234>> <<L3:B>>",
      "5 *>> x", "<<CODE:1*>> <<CODE:~2>>" }

\* the lists _calculate_stats is probed on
StatProbes ==
    {<<>>} \cup { <<a>> : a \in StatProbeTexts }
           \cup { <<a, b>> : a \in StatProbeTexts, b \in StatProbeTexts }

\* the marker mark_text puts before a line classified lvl, if any
MarkerTexts(a) ==
    IF a.level = "CODE"
    THEN IF a.code_info # <<>>
         THEN { _format_code_marker(a.code_info[1].code, a.code_info[1].is_provisional,
                                    a.code_info[1].is_asterisked) }
         ELSE {}
    ELSE IF a.level \in {"L1", "L2", "L3", "L4"}
    THEN { _format_marker(a.level, a.header_text) }
    ELSE {}

\* every line mark_text can put into its output
OutputTexts ==
    { l.text : l \in LineSet }
    \cup { _format_marker("L1", "RULESOFAPPLICATION") }
    \cup UNION { MarkerTexts(Analysis[cfg][l]) : l \in LineSet, cfg \in ConfigSet }

\* stat_line is pure: tabulated on the lines of the model
StatTable == [ s \in OutputTexts \cup StatProbeTexts |-> stat_line(s) ]

\* _calculate_stats: the counters after the loop
_calculate_stats(ls) ==
    [ k \in StatKeys |-> Cardinality({ i \in DOMAIN ls : StatTable[ls[i]][k] = 1 }) ]

(***************************************************************************)
(* State                                                                   *)
(***************************************************************************)
VARIABLES
    pc,                 \* where main() is
    config_file,        \* what --config names (input)
    config,             \* the MarkerConfig in use
    lines,              \* the lines mark_text has taken from its input list
    output,             \* mark_text's output list
    content_started,    \* mark_text's gate
    current_hierarchy,  \* mark_text's HierarchyState
    last,               \* which branch the last iteration took, and its level
    text_at,            \* text_at[k]: index in output where line k was appended
    probe,              \* the last direct call of a detector method
    stats,              \* process_pdf's stats
    first_run,          \* what an earlier call of mark_text took and returned
    \* pdf_text_marker_claude.py
    bpc,                \* where its process_pdf is
    api_key,            \* CLAUDE_API_KEY
    total_pages,        \* len(doc)
    batch_size,         \* --batch-size
    batch_num,          \* the loop variable
    sent,               \* the page windows extracted and sent to the service
    all_tagged_text,    \* the segments collected
    final_text          \* what is written to the output file

\* the locals of process_pdf in pdf_text_marker_claude.py
batch_vars == <<bpc, api_key, total_pages, batch_size, batch_num, sent,
                all_tagged_text, final_text>>

vars == <<pc, config_file, config, lines, output, content_started,
          current_hierarchy, last, text_at, probe, stats, first_run, batch_vars>>

Tiers == {"L1", "L2", "L3", "L4"}

\* int(level[1])
level_num(lvl) ==
    CASE lvl = "L1" -> 1 [] lvl = "L2" -> 2 [] lvl = "L3" -> 3 [] lvl = "L4" -> 4

EmptyHierarchy == [t \in Tiers |-> ""]

NoStep  == [branch |-> "none", level |-> "-"]
NoProbe == [op |-> "none"]
NoStats == [lines |-> -1]
NoRun   == [calls |-> 0]

\* pdf_text_marker_claude.py is not running
BatchIdle ==
    /\ bpc = "idle"
    /\ api_key = "###"
    /\ total_pages = 0
    /\ batch_size = 0
    /\ batch_num = 0
    /\ sent = <<>>
    /\ all_tagged_text = <<>>
    /\ final_text = <<>>

\* the program run as a script: main() is about to load the configuration
InitMain ==
    /\ pc = "load_config"
    /\ config_file \in ConfigFiles \cup BadPatternFiles
    /\ config = NoConfig
    /\ lines = <<>>
    /\ output = <<>>
    /\ content_started = FALSE
    /\ current_hierarchy = EmptyHierarchy
    /\ last = NoStep
    /\ text_at = <<>>
    /\ probe = NoProbe
    /\ stats = NoStats
    /\ first_run = NoRun
    /\ BatchIdle

(***************************************************************************)
(* main()                                                                  *)
(***************************************************************************)
\* config = load_config(args.config), outside main's try block: an
\* exception ends the program
LoadConfig ==
    /\ pc = "load_config"
    /\ LET r == load_config(config_file)
       IN  IF r.raised # ""
           THEN /\ pc' = "fatal"
                /\ config' = config
           ELSE /\ pc' = "process_pdf"
                /\ config' = r.config
    /\ UNCHANGED <<config_file, lines, output, content_started,
                   current_hierarchy, last, text_at, probe>>
    /\ UNCHANGED <<stats, first_run, batch_vars>>

\* HierarchyDetector.__init__ with the expressions compiled at their first
\* use
detector_compiles_Lazily(cfg) == TRUE

\* HierarchyDetector.__init__: re.compile on every expression but the
\* content-start list; re.error leaves the constructor when one is rejected
detector_compiles(cfg) == cfg.uncompilable \ {"content_start_patterns"} = {}

\* process_pdf: the lines are extracted, then TextMarker(config) builds
\* the detector; an exception is caught in main, which returns 1
NewTextMarker ==
    /\ pc = "process_pdf"
    /\ pc' = IF detector_compiles(config) THEN "text_marker" ELSE "error"
    /\ UNCHANGED <<config_file, config, lines, output, content_started,
                   current_hierarchy, last, text_at, probe>>
    /\ UNCHANGED <<stats, first_run, batch_vars>>

\* LocalsAtEntry with the gate and the hierarchy kept on the TextMarker
\* object, where __init__ would set them once
LocalsAtEntry_OnTheMarker ==
    [ output            |-> <<>>,
      content_started   |-> content_started,
      current_hierarchy |-> current_hierarchy ]

\* output = [], content_started = False, current_hierarchy = {'L1': '', ...}:
\* locals of mark_text, created by every call
LocalsAtEntry ==
    [ output            |-> <<>>,
      content_started   |-> FALSE,
      current_hierarchy |-> EmptyHierarchy ]

\* mark_text up to its loop: the content-start expressions are compiled
\* and the locals initialised
MarkTextBegin ==
    /\ pc = "text_marker"
    /\ pc' = IF "content_start_patterns" \in config.uncompilable
             THEN "error" ELSE "mark_text"
    /\ lines' = <<>>
    /\ output' = LocalsAtEntry.output
    /\ content_started' = LocalsAtEntry.content_started
    /\ current_hierarchy' = LocalsAtEntry.current_hierarchy
    /\ last' = NoStep
    /\ text_at' = <<>>
    /\ UNCHANGED <<config_file, config, probe>>
    /\ UNCHANGED <<stats, first_run, batch_vars>>

\* BindTier without the reset of the lower levels
BindTier_NoReset(h, lvl, header_text) ==
    [t \in Tiers |-> IF t = lvl THEN header_text ELSE h[t]]

\* current_hierarchy[level] = header_text, then the lower levels are reset
BindTier(h, lvl, header_text) ==
    [t \in Tiers |-> IF t = lvl THEN header_text
                     ELSE IF level_num(t) > level_num(lvl) THEN ""
                     ELSE h[t]]

\* the marker inserted at the content start
StartMarker == _format_marker("L1", "RULESOFAPPLICATION")

\* Gate with the content-start test made on every line
Gate_EveryStart(started, starts) == ~started \/ starts

\* 'if not content_started': the line is handled by the gate
Gate(started, starts) == ~started

\* PreambleMarker with the marker appended outside the pattern test
PreambleMarker_Always(starts) == <<StartMarker>>

\* a line met before the content has started: the markers put before it
PreambleMarker(starts) == IF starts THEN <<StartMarker>> ELSE <<>>

\* AtContentStart without the 'continue': the line that opens the content
\* goes on to the skip test and the classification
AtContentStart_FallsThrough(h, a) ==
    IF a.starts /\ ~a.skip /\ a.level \in Tiers
    THEN BindTier(h, a.level, a.header_text)
    ELSE h

\* the gate branch ends with 'continue': the line is not classified and
\* the hierarchy is left as it is
AtContentStart(h, a) == h

\* ActiveLevel without the skip test
ActiveLevel_NoSkip(a) == a.level

\* a line met after the content has started: "-" when it is skipped,
\* otherwise what detect_level returns for it
ActiveLevel(a) == IF a.skip THEN "-" ELSE a.level

\* ActiveMarker with the marker of a tier below L1 put only under a bound
\* L1 heading
ActiveMarker_UnderParent(lvl, a) ==
    IF lvl = "CODE"
    THEN IF a.code_info # <<>>
         THEN <<_format_code_marker(a.code_info[1].code,
                                    a.code_info[1].is_provisional,
                                    a.code_info[1].is_asterisked)>>
         ELSE <<>>
    ELSE IF lvl = "L1" \/ (lvl \in Tiers /\ current_hierarchy["L1"] # "")
    THEN <<_format_marker(lvl, a.header_text)>>
    ELSE <<>>

\* ActiveMarker with a plain else in place of the test for a tier
ActiveMarker_ElseTier(lvl, a) ==
    IF lvl = "CODE"
    THEN IF a.code_info # <<>>
         THEN <<_format_code_marker(a.code_info[1].code,
                                    a.code_info[1].is_provisional,
                                    a.code_info[1].is_asterisked)>>
         ELSE <<>>
    ELSE <<_format_marker(lvl, a.header_text)>>

\* the markers put before a line of that level
ActiveMarker(lvl, a) ==
    IF lvl = "CODE"
    THEN IF a.code_info # <<>>
         THEN <<_format_code_marker(a.code_info[1].code,
                                    a.code_info[1].is_provisional,
                                    a.code_info[1].is_asterisked)>>
         ELSE <<>>
    ELSE IF lvl \in Tiers
    THEN <<_format_marker(lvl, a.header_text)>>
    ELSE <<>>

\* Emit with the text appended only when no marker was
Emit_MarkerReplaces(out, marker, text) ==
    IF marker # <<>> THEN out \o marker ELSE out \o <<text>>

\* output.append(marker) if any, then output.append(text)
Emit(out, marker, text) == out \o marker \o <<text>>

\* one iteration of the loop of mark_text, on the next line of the list
MarkLine(line) ==
    LET a    == Analysis[config][line]
        text == line.text
        lvl  == ActiveLevel(a)
    IN
    /\ pc = "mark_text"
    /\ Len(lines) < MaxLines
    /\ lines' = Append(lines, line)
    /\ UNCHANGED <<config_file, config, probe>>
    /\ UNCHANGED <<stats, first_run, batch_vars>>
    /\ IF Gate(content_started, a.starts)
       THEN /\ content_started' = a.starts
            /\ output' = Emit(output, PreambleMarker(a.starts), text)
            /\ text_at' = Append(text_at, Len(output'))
            /\ last' = [branch |-> IF a.starts THEN "start" ELSE "preamble",
                        level |-> "-"]
            /\ current_hierarchy' = AtContentStart(current_hierarchy, a)
            /\ UNCHANGED pc
       ELSE IF a.skip_raises \/ lvl = "RAISE"
       THEN \* the exception leaves mark_text and is caught in main
            /\ pc' = "error"
            /\ last' = [branch |-> "raise", level |-> "-"]
            /\ UNCHANGED <<output, text_at, content_started, current_hierarchy>>
       ELSE /\ output' = Emit(output, ActiveMarker(lvl, a), text)
            /\ text_at' = Append(text_at, Len(output'))
            /\ current_hierarchy' =
                 IF lvl \in Tiers
                 THEN BindTier(current_hierarchy, lvl, a.header_text)
                 ELSE current_hierarchy
            /\ last' = [branch |-> IF lvl = "-" THEN "skip" ELSE "classify",
                        level |-> lvl]
            /\ UNCHANGED <<pc, content_started>>

NextLine == \E line \in LineSet : MarkLine(line)

\* the list is exhausted: mark_text returns its output to process_pdf,
\* which writes it to the output file and computes the statistics
MarkTextReturn ==
    /\ pc = "mark_text"
    /\ pc' = "done"
    /\ stats' = _calculate_stats(output)
    /\ UNCHANGED <<config_file, config, lines, output, content_started,
                   current_hierarchy, last, text_at, probe>>
    /\ UNCHANGED <<first_run, batch_vars>>

(***************************************************************************)
(* The detector called directly                                            *)
(***************************************************************************)
\* the module used as a library: a HierarchyDetector built on a well-typed
\* configuration, whose methods are called on single lines
InitDetector ==
    /\ pc = "detector"
    /\ config_file = "none"
    /\ config \in {DefaultConfig, CustomConfig}
    /\ lines = <<>>
    /\ output = <<>>
    /\ content_started = FALSE
    /\ current_hierarchy = EmptyHierarchy
    /\ last = NoStep
    /\ text_at = <<>>
    /\ probe = NoProbe
    /\ stats = NoStats
    /\ first_run = NoRun
    /\ BatchIdle

DetectorFrame ==
    UNCHANGED <<pc, config_file, config, lines, output, content_started,
                current_hierarchy, last, text_at, stats, first_run, batch_vars>>

CallShouldSkip ==
    /\ pc = "detector"
    /\ \E line \in ProbeLines :
         probe' = [op |-> "should_skip", line |-> line,
                   raised |-> Analysis[config][line].skip_raises,
                   result |-> Analysis[config][line].skip]
    /\ DetectorFrame

CallDetectLevel ==
    /\ pc = "detector"
    /\ \E line \in ProbeLines :
         probe' = [op |-> "detect_level", line |-> line,
                   raised |-> Analysis[config][line].level = "RAISE",
                   result |-> Analysis[config][line].level]
    /\ DetectorFrame

CallExtractCodeInfo ==
    /\ pc = "detector"
    /\ \E line \in ProbeLines :
         probe' = [op |-> "extract_code_info", line |-> line,
                   raised |-> FALSE,
                   result |-> Analysis[config][line].code_info]
    /\ DetectorFrame

\* _calculate_stats is a function of the module: called on a list of lines
CallCalculateStats ==
    /\ pc = "detector"
    /\ \E ls \in StatProbes :
         probe' = [op |-> "_calculate_stats", lines |-> ls,
                   raised |-> FALSE,
                   result |-> _calculate_stats(ls)]
    /\ DetectorFrame

Init == InitMain \/ InitDetector

(***************************************************************************)
(* mark_text called twice on one TextMarker                                *)
(***************************************************************************)
\* the module used as a library: marker = TextMarker(MarkerConfig()) has
\* been built and marker.mark_text(lines) is called, then called again on
\* the same list
InitRerun ==
    /\ pc = "text_marker"
    /\ config_file = "none"
    /\ config = DefaultConfig
    /\ lines = <<>>
    /\ output = <<>>
    /\ content_started = FALSE
    /\ current_hierarchy = EmptyHierarchy
    /\ last = NoStep
    /\ text_at = <<>>
    /\ probe = NoProbe
    /\ stats = NoStats
    /\ first_run = NoRun
    /\ BatchIdle

\* an iteration of the first call: the list is any list of the model
FirstRunLine == first_run = NoRun /\ NextLine

\* an iteration of the second call: the list is the one of the first call
ReplayLine ==
    /\ first_run # NoRun
    /\ Len(lines) < Len(first_run.lines)
    /\ MarkLine(first_run.lines[Len(lines) + 1])

\* mark_text returns its output to the caller
LibraryReturn ==
    /\ pc = "mark_text"
    /\ first_run # NoRun => Len(lines) = Len(first_run.lines)
    /\ pc' = "done"
    /\ UNCHANGED <<config_file, config, lines, output, content_started,
                   current_hierarchy, last, text_at, probe>>
    /\ UNCHANGED <<stats, first_run, batch_vars>>

\* the caller keeps the result and calls mark_text again on the same list
CallAgain ==
    /\ pc = "done"
    /\ first_run = NoRun
    /\ first_run' = [calls |-> 1, lines |-> lines, output |-> output]
    /\ pc' = "text_marker"
    /\ UNCHANGED <<config_file, config, lines, output, content_started,
                   current_hierarchy, last, text_at, probe>>
    /\ UNCHANGED <<stats, batch_vars>>

\* the caller keeps the result, builds a TextMarker on a configuration
\* that differs in the tier pattern lists and the L3 font threshold, and
\* calls its mark_text on the same list
CallOtherTiers ==
    /\ pc = "done"
    /\ first_run = NoRun
    /\ first_run' = [calls |-> 1, lines |-> lines, output |-> output]
    /\ config' = WithTierFields(config, TierFields)
    /\ detector_compiles(config')
    /\ pc' = "text_marker"
    /\ UNCHANGED <<config_file, lines, output, content_started,
                   current_hierarchy, last, text_at, probe>>
    /\ UNCHANGED <<stats, batch_vars>>

NextTiers ==
    \/ MarkTextBegin
    \/ FirstRunLine
    \/ ReplayLine
    \/ LibraryReturn
    \/ CallOtherTiers

SpecTiers == InitRerun /\ [][NextTiers]_vars

NextRerun ==
    \/ MarkTextBegin
    \/ FirstRunLine
    \/ ReplayLine
    \/ LibraryReturn
    \/ CallAgain

SpecRerun == InitRerun /\ [][NextRerun]_vars

Next ==
    \/ LoadConfig
    \/ NewTextMarker
    \/ MarkTextBegin
    \/ NextLine
    \/ MarkTextReturn
    \/ CallShouldSkip
    \/ CallDetectLevel
    \/ CallExtractCodeInfo
    \/ CallCalculateStats

Spec == Init /\ [][Next]_vars

(***************************************************************************)
(* The batch pipeline (src/pdf_text_marker_claude.py)                      *)
(***************************************************************************)
MaxPages == 5
MaxBatch == 3

Min(a, b) == IF a <= b THEN a ELSE b

\* the text of the pages start_page..end_page, each under its
\* '--- Page n ---' header: written as the list of the page numbers
extract_pages_text(total, start_page, end_page) ==
    [ i \in 1..(Min(end_page, total) - start_page + 1) |-> start_page + i - 1 ]

\* num_batches with the division rounded down
num_batches_Floor(total, size) == total \div size

\* (total_pages + batch_size - 1) // batch_size
num_batches(total, size) == (total + size - 1) \div size

\* what call_claude_api returns for a window: the service's tagging of
\* the text it was sent
Tagged(batch_text) == [kind |-> "tagged", pages |-> batch_text]

\* '--- BATCH n FAILED (pages a-b) ---'
FailedBatch(n, start_page, end_page) ==
    [kind |-> "failed", batch |-> n, start_page |-> start_page, end_page |-> end_page]

\* the two newlines put between segments
Separator == [kind |-> "separator"]

\* "\n\n".join(segments)
RECURSIVE Join(_)
Join(segments) ==
    IF Len(segments) <= 1 THEN segments
    ELSE <<Head(segments), Separator>> \o Join(Tail(segments))

\* what a call of the service can do: return, raise anthropic.APIError,
\* raise anything else
CallOutcomes == {"ok", "api_error", "other_error"}

\* the variables of pdf_text_marker.py
main_vars == <<pc, config_file, config, lines, output, content_started,
               current_hierarchy, last, text_at, probe, stats, first_run>>

\* pdf_text_marker_claude.py is run on a document of total_pages pages
InitBatch ==
    /\ pc = "batch"
    /\ config_file = "none"
    /\ config = NoConfig
    /\ lines = <<>>
    /\ output = <<>>
    /\ content_started = FALSE
    /\ current_hierarchy = EmptyHierarchy
    /\ last = NoStep
    /\ text_at = <<>>
    /\ probe = NoProbe
    /\ stats = NoStats
    /\ first_run = NoRun
    /\ bpc = "start"
    /\ api_key \in {"###", "key"}
    /\ total_pages \in 1..MaxPages
    /\ batch_size \in 0..MaxBatch
    /\ batch_num = 0
    /\ sent = <<>>
    /\ all_tagged_text = <<>>
    /\ final_text = <<>>

\* process_pdf up to its loop: sys.exit(1) when the key is the
\* placeholder; the number of batches is computed (ZeroDivisionError when
\* the batch size is 0)
BatchStart ==
    /\ bpc = "start"
    /\ bpc' = IF api_key = "###" THEN "exit"
              ELSE IF batch_size = 0 THEN "crashed"
              ELSE "loop"
    /\ UNCHANGED <<api_key, total_pages, batch_size, batch_num, sent,
                   all_tagged_text, final_text, main_vars>>

\* one iteration of the loop: the window is extracted and sent; the
\* response, or the placeholder of a failed call, is appended
BatchStep(outcome) ==
    LET start_page == batch_num * batch_size + 1
        end_page   == Min((batch_num + 1) * batch_size, total_pages)
        batch_text == extract_pages_text(total_pages, start_page, end_page)
    IN  /\ bpc = "loop"
        /\ batch_num < num_batches(total_pages, batch_size)
        /\ sent' = Append(sent, batch_text)
        /\ batch_num' = batch_num + 1
        /\ IF outcome = "ok"
           THEN /\ all_tagged_text' = Append(all_tagged_text, Tagged(batch_text))
                /\ bpc' = bpc
           ELSE IF outcome = "api_error"
           THEN /\ all_tagged_text' =
                     Append(all_tagged_text, FailedBatch(batch_num + 1, start_page, end_page))
                /\ bpc' = bpc
           ELSE \* the exception leaves process_pdf: nothing is written
                /\ all_tagged_text' = all_tagged_text
                /\ bpc' = "crashed"
        /\ UNCHANGED <<api_key, total_pages, batch_size, final_text, main_vars>>

NextBatch == \E outcome \in CallOutcomes : BatchStep(outcome)

\* after the loop: the segments are joined and written
BatchFinish ==
    /\ bpc = "loop"
    /\ batch_num = num_batches(total_pages, batch_size)
    /\ final_text' = Join(all_tagged_text)
    /\ bpc' = "written"
    /\ UNCHANGED <<api_key, total_pages, batch_size, batch_num, sent,
                   all_tagged_text, main_vars>>

NextBatchRun ==
    \/ BatchStart
    \/ NextBatch
    \/ BatchFinish

SpecBatch == InitBatch /\ [][NextBatchRun]_vars

(***************************************************************************)
(* Properties                                                              *)
(***************************************************************************)
\* mark_text is running or has returned
Marking == pc \in {"mark_text", "done"}

IsMarkerLine(s) ==
    /\ Len(s) >= 4
    /\ SubSeq(s, 1, 2) = "<<"
    /\ SubSeq(s, Len(s) - 1, Len(s)) = ">>"

\* out is the texts of ins, in order, each preceded by at most one marker line
RECURSIVE Interleaved(_, _)
Interleaved(out, ins) ==
    IF ins = <<>> THEN out = <<>>
    ELSE \/ /\ Len(out) >= 1
            /\ out[1] = ins[1].text
            /\ Interleaved(Tail(out), Tail(ins))
         \/ /\ Len(out) >= 2
            /\ IsMarkerLine(out[1])
            /\ out[2] = ins[1].text
            /\ Interleaved(Tail(Tail(out)), Tail(ins))

\* the markers put before line k: the output between line k-1 and line k
MarkersBefore(k) ==
    SubSeq(output, (IF k = 1 THEN 0 ELSE text_at[k - 1]) + 1, text_at[k] - 1)

\* C1: the output of mark_text is the input texts, unmodified and in order,
\* each immediately preceded by zero or one marker line, so that
\* len(input) <= len(output) <= 2 * len(input)
C1_OutputInterleavesInput ==
    Marking =>
        /\ Interleaved(output, lines)
        /\ Len(lines) <= Len(output)
        /\ Len(output) <= 2 * Len(lines)
        /\ Len(text_at) = Len(lines)
        /\ \A k \in 1..Len(lines) :
             /\ output[text_at[k]] = lines[k].text
             /\ Len(MarkersBefore(k)) <= 1

\* a finished run in which the content start, a heading and a code line
\* got a marker and a plain line got none
C1_Witness ==
    /\ pc = "done"
    /\ config = DefaultConfig
    /\ Len(lines) = 4
    /\ Len(output) = 7
    /\ content_started
    /\ \E k \in 2..4 : Len(MarkersBefore(k)) = 0
    /\ \E k \in 2..4 : Len(MarkersBefore(k)) = 1 /\ MarkersBefore(k)[1] = "<<CODE:8540>>"
    /\ current_hierarchy # EmptyHierarchy

\* the lines that match a content-start expression
ContentStartLines ==
    { l \in LineSet : AnySearch(content_start_patterns, l.text, FALSE) }

\* index of the first content-start line of ls, 0 when there is none
FirstStart(ls) ==
    LET hits == { k \in 1..Len(ls) : ls[k] \in ContentStartLines }
    IN  IF hits = {} THEN 0 ELSE CHOOSE k \in hits : \A j \in hits : k <= j

\* C2: no marker before the first content-start line, whose text is preceded
\* by exactly the marker <<L1:RULESOFAPPLICATION>>; with no content-start line
\* the output is the input and the hierarchy is untouched
C2_Gating ==
    Marking =>
        LET f == FirstStart(lines)
        IN  /\ \A k \in 1..(IF f = 0 THEN Len(lines) ELSE f - 1) :
                 output[k] = lines[k].text
            /\ f = 0 => /\ Len(output) = Len(lines)
                        /\ ~content_started
                        /\ current_hierarchy = EmptyHierarchy
            /\ f # 0 => /\ content_started
                        /\ output[f] = "<<L1:RULESOFAPPLICATION>>"
                        /\ output[f + 1] = lines[f].text
                        /\ text_at[f] = f + 1

\* a heading and a code line come first and stay unmarked, then the content starts
C2_Witness ==
    /\ pc = "done"
    /\ FirstStart(lines) = 3
    /\ Analysis[config][lines[1]].level \in Tiers
    /\ Analysis[config][lines[2]].level = "CODE"
    /\ ~Analysis[config][lines[1]].skip /\ ~Analysis[config][lines[2]].skip

\* C3: a line classified tier k after the content start binds tier k to its
\* cleaned header text, clears every deeper tier and leaves every
\* shallower tier as it was
C3_StrictNesting ==
    [][ (pc = "mark_text" /\ pc' = "mark_text" /\ content_started
         /\ Len(lines') = Len(lines) + 1)
        => LET a == Analysis[config][lines'[Len(lines')]]
           IN  (~a.skip /\ a.level \in Tiers)
               => /\ current_hierarchy'[a.level] = a.header_text
                  /\ \A t \in Tiers :
                       /\ level_num(t) > level_num(a.level)
                            => current_hierarchy'[t] = ""
                       /\ level_num(t) < level_num(a.level)
                            => current_hierarchy'[t] = current_hierarchy[t] ]_vars

\* content start, an L1 heading, an L2 heading, and a second L1 heading
\* that has cleared the L2 binding
C3_Witness ==
    /\ pc = "mark_text"
    /\ Len(lines) = 4
    /\ content_started /\ FirstStart(lines) = 1
    /\ ActiveLevel(Analysis[config][lines[2]]) = "L1"
    /\ ActiveLevel(Analysis[config][lines[3]]) = "L2"
    /\ ActiveLevel(Analysis[config][lines[4]]) = "L1"
    /\ current_hierarchy["L1"] # ""
    /\ current_hierarchy["L2"] = ""

\* the well-typed configurations
WellTyped == {DefaultConfig, CustomConfig}

\* the four tests of detect_level on one line, each evaluated on its own
TestsOf(line, cfg) ==
    [ code |-> _is_tariff_code(str_strip(line.text)),
      l1   |-> _matches_l1(line, cfg),
      l2   |-> _matches_l2(line, cfg),
      l3   |-> _matches_l3(line, cfg) ]

LastLine == lines[Len(lines)]

\* an iteration of the loop of mark_text that completes
IsIteration ==
    /\ pc = "mark_text" /\ pc' = "mark_text"
    /\ Len(lines') = Len(lines) + 1

\* the lines no rule matches: neither skip, content start, code nor tier
PlainLines ==
    [ cfg \in WellTyped |->
        { l \in LineSet :
            /\ ~should_skip(l, cfg)
            /\ ~AnySearch(content_start_patterns, l.text, FALSE)
            /\ ~_is_tariff_code(str_strip(l.text))
            /\ ~_matches_l1(l, cfg) /\ ~_matches_l2(l, cfg) /\ ~_matches_l3(l, cfg) } ]

\* C5: a line that no skip, content-start, hierarchy or code rule matches
\* is emitted as it is, with no marker, and leaves the hierarchy unchanged,
\* before and after the content start
C5_Identity ==
    [][ (IsIteration /\ config \in WellTyped
         /\ lines'[Len(lines')] \in PlainLines[config])
        => /\ output' = Append(output, lines'[Len(lines')].text)
           /\ current_hierarchy' = current_hierarchy ]_vars

\* a plain line met after the content start, below a bound L1 heading
C5_Witness ==
    /\ pc = "mark_text"
    /\ config \in WellTyped
    /\ content_started
    /\ Len(lines) >= 3
    /\ LastLine \in PlainLines[config]
    /\ last.level = "NONE"
    /\ current_hierarchy["L1"] # ""
    /\ output[Len(output)] = LastLine.text
    /\ ~IsMarkerLine(output[Len(output) - 1])

\* the lines should_skip accepts
SkipLines ==
    [ cfg \in WellTyped |-> { l \in LineSet : should_skip(l, cfg) } ]

\* C6: after the content start a line for which should_skip is true is
\* emitted as it is, with no marker, and leaves the hierarchy unchanged,
\* even when a code or tier test would accept it
C6_SkipIndependence ==
    [][ (IsIteration /\ content_started /\ config \in WellTyped
         /\ lines'[Len(lines')] \in SkipLines[config])
        => /\ output' = Append(output, lines'[Len(lines')].text)
           /\ current_hierarchy' = current_hierarchy ]_vars

\* a skipped line that detect_level would classify as a tier, below a
\* bound heading and after a page number
C6_Witness ==
    /\ pc = "mark_text"
    /\ config \in WellTyped
    /\ Len(lines) = 4
    /\ FirstStart(lines) = 1
    /\ lines[3].text = "123"
    /\ LastLine \in SkipLines[config]
    /\ detect_level(LastLine, config) \in Tiers
    /\ last.branch = "skip"
    /\ current_hierarchy["L1"] # ""
    /\ output[Len(output)] = LastLine.text
    /\ ~IsMarkerLine(output[Len(output) - 1])

\* the lines detect_level classifies CODE and should_skip lets through
CodeLines ==
    [ cfg \in WellTyped |->
        { l \in LineSet : ~should_skip(l, cfg) /\ detect_level(l, cfg) = "CODE" } ]

\* the code marker as the claim words it: '~' iff the trimmed line starts
\* with '~', the four leading digits, '*' iff an asterisk follows them
ExpectedCodeMarker(text) ==
    LET t  == str_strip(text)
        at == IF Chr(t, 1) = "~" THEN 2 ELSE 1
    IN  "<<CODE:" \o (IF Chr(t, 1) = "~" THEN "~" ELSE "")
                  \o SubSeq(t, at, at + 3)
                  \o (IF Chr(t, at + 4) = "*" THEN "*" ELSE "") \o ">>"

CodePrefixed(text) == DescriptionStart(str_strip(text)) # 0

\* the length of the description that follows the code prefix
DescriptionLen(text) == Len(remaining_of(str_strip(text)))

\* C8 as stated: a code-prefixed line with a description of exactly 10
\* characters is never CODE, and one with 11 characters always is
C8_Original ==
    (probe.op = "detect_level" /\ CodePrefixed(probe.line.text))
    => /\ DescriptionLen(probe.line.text) = 10 => probe.result # "CODE"
       /\ DescriptionLen(probe.line.text) = 11 => probe.result = "CODE"

\* the line is a fee line: code, description, dotted leader and amount
IsFeeLine(text) == re_match(code_with_fee_pattern, str_strip(text), FALSE)

\* the description is an index-only continuation: a dotted leader followed
\* by a page reference, or a list of page references
IsIndexOnly(text) ==
    LET remaining == remaining_of(str_strip(text))
    IN  \/ re_match(<<StartAnchor, Cls({"."}, 3, -1), Ws(0, -1)>> \o PageRef,
                    remaining, FALSE)
        \/ re_match(<<StartAnchor>> \o PageRef
                      \o <<Grp(<<Lit(","), Ws(0, -1)>> \o PageRef, 0, -1),
                           Ws(0, -1), EndAnchor>>,
                    remaining, FALSE)

\* C8, amended: among code-prefixed lines that are not fee lines, a
\* description of exactly 10 characters is not CODE, and one of 11
\* characters is CODE unless it is an index-only continuation
C8_DescriptionBoundary ==
    (probe.op = "detect_level" /\ CodePrefixed(probe.line.text)
     /\ ~IsFeeLine(probe.line.text))
    => /\ DescriptionLen(probe.line.text) = 10 => probe.result # "CODE"
       /\ (DescriptionLen(probe.line.text) = 11 /\ ~IsIndexOnly(probe.line.text))
            => probe.result = "CODE"

\* '8541 abcdefghij': ten characters, no fee, not classified CODE
C8_Witness ==
    /\ probe.op = "detect_level"
    /\ CodePrefixed(probe.line.text)
    /\ ~IsFeeLine(probe.line.text)
    /\ DescriptionLen(probe.line.text) = 10
    /\ probe.result = "NONE"

\* C9: when the configuration file is missing, unreadable or invalid,
\* load_config returns the default configuration and the run goes on
C9_ConfigFallback ==
    (pc # "load_config"
     /\ config_file \in {"missing", "unreadable", "invalid_json", "unknown_key", "ill_typed"})
    => /\ pc # "fatal"
       /\ config = DefaultConfig

DetectResults == {"CODE", "L1", "L2", "L3", "NONE"}

\* C10: on every line, should_skip, detect_level and the iteration of
\* mark_text complete without raising (the configuration being well
\* typed); detect_level returns one of CODE, L1, L2, L3, NONE, and a line
\* that no test accepts yields NONE and is passed through untouched
C10_Totality ==
    /\ (pc = "error" => config \notin WellTyped)
    /\ probe.op \in {"should_skip", "detect_level"} => ~probe.raised
    /\ probe.op = "detect_level" =>
         /\ probe.result \in DetectResults
         /\ LET t == TestsOf(probe.line, config)
            IN  (~t.code /\ ~t.l1 /\ ~t.l2 /\ ~t.l3) => probe.result = "NONE"
    /\ (Marking /\ last.branch = "classify") =>
         /\ last.level \in DetectResults
         /\ last.level = "NONE" =>
              /\ output[Len(output)] = LastLine.text
              /\ MarkersBefore(Len(lines)) = <<>>

\* an empty line and a bold heading with two adjacent blanks, which takes
\* the word-by-word branch of the L2 test, have gone through mark_text
C10_Witness ==
    /\ pc = "done"
    /\ config = DefaultConfig
    /\ Len(lines) = 3
    /\ FirstStart(lines) = 1
    /\ lines[2].text = ""
    /\ lines[3].text = "Sj%gren  Syndrome"
    /\ L2BoldBranch(lines[3], config)
    /\ last.level = "L2"

\* the characters of t that are in S, in order
RECURSIVE KeepChars(_, _)
KeepChars(t, S) ==
    IF t = "" THEN ""
    ELSE (IF Head(t) \in S THEN Head(t) ELSE "") \o KeepChars(Tail(t), S)

\* the letters and digits of the model's alphabet
LettersAndDigits == UPPER \cup LOWER \cup DIGIT \cup {NonAsciiUpper, NonAsciiLower}

\* the lines classified L1..L3 after the content start
HeadingLines ==
    [ cfg \in WellTyped |->
        { l \in LineSet : ~should_skip(l, cfg) /\ detect_level(l, cfg) \in Tiers } ]

\* the cleaned header text upper-cased, with the characters outside S removed
NormalizedValue(S) ==
    [ l \in LineSet |-> KeepChars(str_upper(_clean_header_text(l.text)), S) ]

ValueKeepingLetters == NormalizedValue(LettersAndDigits)
ValueKeepingAZ09    == NormalizedValue(UPPER \cup DIGIT)

\* the iteration on a line classified tier lvl emitted the marker of that
\* tier with the given value, then the text, and bound the cleaned text
HeadingStep(value) ==
    LET line == lines'[Len(lines')]
        lvl  == Analysis[config][line].level
    IN  /\ output' = output \o << "<<" \o lvl \o ":" \o value[line] \o ">>", line.text >>
        /\ current_hierarchy'[lvl] = Analysis[config][line].header_text

\* C11 as stated: the marker value is the cleaned header text upper-cased
\* with every character that is not a letter or digit removed
C11_Original ==
    [][ (IsIteration /\ content_started /\ config \in WellTyped
         /\ lines'[Len(lines')] \in HeadingLines[config])
        => HeadingStep(ValueKeepingLetters) ]_vars

\* C11, amended: for every line classified L1..L3 after the content start
\* the emitted marker is <<tier:value>> where value is the cleaned header
\* text upper-cased with every character other than A-Z and 0-9 removed (a
\* letter outside ASCII is removed too), 'NEUROLOGY (01-1)' giving
\* <<L1:NEUROLOGY011>>; the value bound to the tier is the cleaned text
C11_HeadingNormalization ==
    [][ (IsIteration /\ content_started /\ config \in WellTyped
         /\ lines'[Len(lines')] \in HeadingLines[config])
        => /\ HeadingStep(ValueKeepingAZ09)
           /\ lines'[Len(lines')].text = "NEUROLOGY (01-1)"
                => /\ output'[Len(output') - 1] = "<<L1:NEUROLOGY011>>"
                   /\ current_hierarchy'["L1"] = "NEUROLOGY (01-1)"
           /\ CharsOf(ValueKeepingAZ09[lines'[Len(lines')]]) \subseteq UPPER \cup DIGIT ]_vars

\* an index line cleaned to 'Spine', a heading with a letter outside ASCII
\* and the specialty heading of the claim have been marked
C11_Witness ==
    /\ pc = "mark_text"
    /\ config = DefaultConfig
    /\ Len(lines) = 4
    /\ FirstStart(lines) = 1
    /\ MarkersBefore(2) = << "<<L2:SPINE>>" >>
    /\ lines[2].text = "Spine ..... B-12"
    /\ MarkersBefore(3) = << "<<L2:SJGRENSYNDROME>>" >>
    /\ lines[3].text = "Sj%gren  Syndrome"
    /\ MarkersBefore(4) = << "<<L1:NEUROLOGY011>>" >>
    /\ current_hierarchy = [EmptyHierarchy EXCEPT !["L1"] = "NEUROLOGY (01-1)"]

\* C12: mark_text starts before the content (PREAMBLE); the first line that
\* matches a content-start expression opens the content (ACTIVE), which
\* stays open for the rest of the run; a later content-start line gets no
\* synthetic marker and goes through the skip test and the classification
\* like any other line
C12_ActiveIsTerminal ==
    [][ /\ (pc = "text_marker" /\ pc' = "mark_text") => ~content_started'
        /\ (pc = "mark_text" /\ content_started) => content_started'
        /\ (IsIteration /\ config \in WellTyped) =>
             LET line == lines'[Len(lines')]
                 a    == Analysis[config][line]
             IN  /\ ~content_started =>
                      (content_started' <=> line \in ContentStartLines)
                 /\ (content_started /\ line \in ContentStartLines) =>
                      IF line \in SkipLines[config]
                      THEN /\ output' = Append(output, line.text)
                           /\ current_hierarchy' = current_hierarchy
                      ELSE /\ a.level = "L1"
                           /\ output' = output \o << "<<L1:" \o ValueKeepingAZ09[line] \o ">>",
                                                     line.text >>
                           /\ current_hierarchy' =
                                [EmptyHierarchy EXCEPT !["L1"] = a.header_text] ]_vars

\* after the content start a date header that names the rules of
\* application was skipped, and a second 'RULES OF APPLICATION' was
\* classified L1, which bound L1 and cleared the L2 heading before it
C12_Witness ==
    /\ pc = "mark_text"
    /\ config = DefaultConfig
    /\ content_started
    /\ lines = << TextLine("RULES OF APPLICATION", 120, TRUE),
                  TextLine("APRIL 1, 2024 RULES OF APPLICATION", 120, TRUE),
                  TextLine("Spine ..... B-12", 100, FALSE),
                  TextLine("RULES OF APPLICATION", 120, TRUE) >>
    /\ output = << "<<L1:RULESOFAPPLICATION>>", "RULES OF APPLICATION",
                   "APRIL 1, 2024 RULES OF APPLICATION",
                   "<<L2:SPINE>>", "Spine ..... B-12",
                   "<<L1:RULESOFAPPLICATION>>", "RULES OF APPLICATION" >>
    /\ current_hierarchy = [EmptyHierarchy EXCEPT !["L1"] = "RULES OF APPLICATION"]

\* C14: with a configuration one of whose expressions does not compile
\* (a tier list, the skip list, the content-start list, the code,
\* code-with-fee or fee expression) the run ends in an error before the
\* loop of mark_text is entered: no line is classified and no output line
\* exists; every expression but the content-start list fails in the
\* constructor of the detector
C14_BadPatternAborts ==
    config_file \in BadPatternFiles =>
        /\ pc \in {"load_config", "process_pdf", "text_marker", "error"}
        /\ pc = "text_marker" => config.uncompilable = {"content_start_patterns"}
        /\ lines = <<>>
        /\ output = <<>>
        /\ last = NoStep
        /\ ~content_started
        /\ current_hierarchy = EmptyHierarchy

\* the content-start list, which is compiled last, has ended the run
C14_Witness ==
    /\ pc = "error"
    /\ config_file = BadPatternFile("content_start_patterns")
    /\ config.uncompilable = {"content_start_patterns"}
    /\ output = <<>>

\* C13: every call of mark_text starts before the content with the four
\* tiers unbound and an empty output, whatever an earlier call on the same
\* TextMarker has left; a second call on the same list retraces the output
\* of the first and returns the same list of lines
C13_RunScopedState ==
    /\ (pc = "mark_text" /\ lines = <<>>) =>
         /\ ~content_started
         /\ current_hierarchy = EmptyHierarchy
         /\ output = <<>>
    /\ (first_run # NoRun /\ pc \in {"mark_text", "done"}) =>
         /\ Len(lines) <= Len(first_run.lines)
         /\ lines = SubSeq(first_run.lines, 1, Len(lines))
         /\ Len(output) <= Len(first_run.output)
         /\ output = SubSeq(first_run.output, 1, Len(output))
    /\ (first_run # NoRun /\ pc = "done") =>
         /\ lines = first_run.lines
         /\ output = first_run.output

\* the second call has returned; the first call had ended past the content
\* start with a heading bound, and the list begins with a heading that
\* stays unmarked only before the content start
C13_Witness ==
    /\ pc = "done"
    /\ first_run # NoRun
    /\ Len(lines) = 4
    /\ FirstStart(lines) = 3
    /\ lines[1].text = "NEUROLOGY (01-1)"
    /\ lines[4].text = "Incision"
    /\ output = first_run.output
    /\ output[1] = "NEUROLOGY (01-1)"
    /\ Len(output) = 6
    /\ current_hierarchy["L3"] = "Incision"

\* the line is a hierarchy marker of tier L4
IsL4Marker(s) == Len(s) >= 5 /\ SubSeq(s, 1, 5) = "<<L4:"

\* C15: detect_level never returns L4, so throughout a run of mark_text
\* the L4 tier is unbound and no marker put before a line is an L4 marker
C15_L4NeverProduced ==
    /\ probe.op = "detect_level" => probe.result # "L4"
    /\ pc \in {"mark_text", "done", "error"} =>
         /\ current_hierarchy["L4"] = ""
         /\ last.level # "L4"
         /\ \A k \in 1..Len(text_at) :
              \A m \in DOMAIN MarkersBefore(k) : ~IsL4Marker(MarkersBefore(k)[m])

\* the three tiers the detector produces are bound, one under the other,
\* and L4 is not
C15_Witness ==
    /\ pc = "done"
    /\ config = DefaultConfig
    /\ Len(lines) = 4
    /\ FirstStart(lines) = 1
    /\ current_hierarchy = [ L1 |-> "NEUROLOGY (01-1)", L2 |-> "Spine",
                             L3 |-> "Incision", L4 |-> "" ]
    /\ MarkersBefore(4) = << "<<L3:INCISION>>" >>

\* the category the claim gives a line: the first of L1, L2, L3, L4, CODE
\* whose marker prefix is found in it, "-" when none is
CategoryOf(line) ==
    LET found == { t \in Tiers \cup {"CODE"} : Contains(line, "<<" \o t \o ":") }
    IN  IF found \cap Tiers # {}
        THEN CHOOSE t \in found \cap Tiers :
               \A u \in found \cap Tiers : level_num(t) <= level_num(u)
        ELSE IF "CODE" \in found THEN "CODE" ELSE "-"

Category == [ s \in OutputTexts \cup StatProbeTexts |-> CategoryOf(s) ]

HasProvisional == { s \in OutputTexts \cup StatProbeTexts : Contains(s, "<<CODE:~") }
HasAsterisk    == { s \in OutputTexts \cup StatProbeTexts : Contains(s, "*>>") }

\* the counters r are those the claim gives the list ls
StatsAsClaimed(r, ls) ==
    LET counted(t) == { i \in DOMAIN ls : Category[ls[i]] = t }
    IN  /\ \A t \in Tiers \cup {"CODE"} : r[t] = Cardinality(counted(t))
        /\ r.provisional = Cardinality(counted("CODE") \cap { i \in DOMAIN ls : ls[i] \in HasProvisional })
        /\ r.asterisked  = Cardinality(counted("CODE") \cap { i \in DOMAIN ls : ls[i] \in HasAsterisk })
        /\ r.L1 + r.L2 + r.L3 + r.L4 + r.CODE <= Len(ls)
        /\ r.provisional <= r.CODE
        /\ r.asterisked <= r.CODE

\* C16: _calculate_stats counts each line in at most one of L1, L2, L3, L4,
\* CODE, the first whose prefix is found in that order; provisional and
\* asterisked are counted only on lines counted as CODE, by two tests of
\* their own, so that the sum of the categories is at most the number of
\* lines and each sub-counter at most CODE; on the output of a run the
\* categories add up to the number of markers inserted
C16_StatsCounts ==
    /\ probe.op = "_calculate_stats" => StatsAsClaimed(probe.result, probe.lines)
    /\ stats # NoStats =>
         /\ pc = "done"
         /\ StatsAsClaimed(stats, output)
         /\ stats.L1 + stats.L2 + stats.L3 + stats.L4 + stats.CODE
              = Len(output) - Len(lines)

\* a line that carries an L2 and a code marker is counted as L2 only, and
\* a code marker with both glyphs is counted in both sub-counters
C16_Witness ==
    /\ probe.op = "_calculate_stats"
    /\ probe.lines = << "see <<L2:A>> and <<CODE:~1234*>>", "<<CODE:~0171*>>" >>
    /\ probe.result = [ L1 |-> 0, L2 |-> 1, L3 |-> 0, L4 |-> 0, CODE |-> 1,
                        provisional |-> 1, asterisked |-> 1 ]

\* the trimmed text contains the fee leader, or begins with the code pattern
HasFeeLeader(text)   == re_search(fee_pattern, str_strip(text), FALSE)
BeginsWithCode(text) == re_match(code_pattern, str_strip(text), FALSE)

\* the lines of a document that a guard common to the three tiers rejects
GuardedLines == { l \in LineSet : HasFeeLeader(l.text) \/ BeginsWithCode(l.text) }

\* what the guards say of each probe line: which tiers they exclude
Excluded ==
    [ l \in ProbeLines |->
        LET n == Len(str_strip(l.text))
            g == HasFeeLeader(l.text) \/ BeginsWithCode(l.text)
        IN  (IF g \/ n > 80 THEN {"L1"} ELSE {})
            \cup (IF g \/ n > 60 THEN {"L2"} ELSE {})
            \cup (IF g \/ n > 40 THEN {"L3"} ELSE {}) ]

\* the tier tests that accept each probe line
Accepting ==
    [ cfg \in WellTyped |->
        [ l \in ProbeLines |->
            (IF _matches_l1(l, cfg) THEN {"L1"} ELSE {})
            \cup (IF ~_matches_l2_raises(l, cfg) /\ _matches_l2(l, cfg) THEN {"L2"} ELSE {})
            \cup (IF _matches_l3(l, cfg) THEN {"L3"} ELSE {}) ] ]

RECURSIVE Flatten(_)
Flatten(ss) == IF ss = <<>> THEN <<>> ELSE Head(ss) \o Flatten(Tail(ss))

\* ceil(n / b)
CeilDiv(n, b) == CHOOSE c \in 0..n : (c - 1) * b < n /\ n <= c * b

\* the segments of a joined text: what stands between the separators
SegmentsOf(text) ==
    [ k \in 1..((Len(text) + 1) \div 2) |-> text[2 * k - 1] ]

\* segment k stands for window k: the tagging of exactly its pages, or the
\* placeholder that names the batch and its first and last page
SegmentOfWindow(seg, k, window) ==
    \/ seg = [kind |-> "tagged", pages |-> window]
    \/ seg = [kind |-> "failed", batch |-> k,
              start_page |-> window[1], end_page |-> window[Len(window)]]

\* C18: with N >= 1 pages and batch size B >= 1 the windows sent to the
\* service are contiguous, disjoint, of 1..B pages each, and run through
\* the pages in ascending order; when the text is written there are
\* ceil(N/B) of them, they cover 1..N exactly once, and the text is one
\* segment per window in window order, separated by blank lines, a failed
\* call leaving its placeholder and the later windows still being sent
C18_BatchWindows ==
    (bpc \in {"loop", "written"}) =>
        /\ batch_size >= 1 /\ total_pages >= 1
        /\ Len(sent) = batch_num
        /\ \A k \in 1..Len(sent) : Len(sent[k]) \in 1..batch_size
        /\ Flatten(sent) = [ i \in 1..Len(Flatten(sent)) |-> i ]
        /\ Len(Flatten(sent)) <= total_pages
        /\ Len(all_tagged_text) = Len(sent)
        /\ \A k \in 1..Len(sent) : SegmentOfWindow(all_tagged_text[k], k, sent[k])
        /\ bpc = "written" =>
             /\ Len(sent) = CeilDiv(total_pages, batch_size)
             /\ Flatten(sent) = [ i \in 1..total_pages |-> i ]
             /\ Len(final_text) = 2 * Len(sent) - 1
             /\ SegmentsOf(final_text) = all_tagged_text
             /\ \A j \in 1..Len(final_text) :
                  (j % 2 = 0) <=> (final_text[j] = [kind |-> "separator"])

\* five pages in windows of two: the call for pages 3-4 failed, and the
\* window of page 5 was sent all the same
C18_Witness ==
    /\ bpc = "written"
    /\ total_pages = 5
    /\ batch_size = 2
    /\ sent = << <<1, 2>>, <<3, 4>>, <<5>> >>
    /\ final_text = << [kind |-> "tagged", pages |-> <<1, 2>>],
                       [kind |-> "separator"],
                       [kind |-> "failed", batch |-> 2, start_page |-> 3, end_page |-> 4],
                       [kind |-> "separator"],
                       [kind |-> "tagged", pages |-> <<5>>] >>

\* the markers the detector's answers give a line on its own: none when
\* it is skipped, the code marker, or the marker of its tier
MarkerOfLine(line, cfg) ==
    LET lvl == detect_level(line, cfg)
        ci  == extract_code_info(line.text)
    IN  IF should_skip(line, cfg) THEN <<>>
        ELSE IF lvl = "CODE"
        THEN IF ci # <<>>
             THEN << _format_code_marker(ci[1].code, ci[1].is_provisional, ci[1].is_asterisked) >>
             ELSE <<>>
        ELSE IF lvl \in Tiers
        THEN << _format_marker(lvl, _clean_header_text(line.text)) >>
        ELSE <<>>

MarkerFor == [ cfg \in WellTyped |-> [ l \in LineSet |-> MarkerOfLine(l, cfg) ] ]

\* C19: after the content start the marker put before a line, or its
\* absence, is a function of that line's text, font size and bold flag
\* (and of the configuration): it is the same wherever the line stands,
\* whatever the hierarchy holds and whatever line came before it
C19_HierarchyIsWriteOnly ==
    (Marking /\ config \in WellTyped /\ FirstStart(lines) # 0) =>
        \A k \in (FirstStart(lines) + 1)..Len(lines) :
            /\ MarkersBefore(k) = MarkerFor[config][lines[k]]
            /\ \A j \in (FirstStart(lines) + 1)..Len(lines) :
                 lines[j] = lines[k] => MarkersBefore(j) = MarkersBefore(k)

\* 'Incision' stands right after the content start, with nothing bound,
\* and again under an L1 and an L2 heading: it gets the same marker
C19_Witness ==
    /\ pc = "mark_text"
    /\ config = DefaultConfig
    /\ MaxLines >= 5 \/ Len(lines) = 4
    /\ FirstStart(lines) = 1
    /\ lines[2].text = "Incision"
    /\ lines[3].text = "Spine ..... B-12"
    /\ lines[4].text = "Incision"
    /\ MarkersBefore(2) = << "<<L3:INCISION>>" >>
    /\ MarkersBefore(4) = << "<<L3:INCISION>>" >>
    /\ current_hierarchy = [ L1 |-> "", L2 |-> "Spine", L3 |-> "Incision", L4 |-> "" ]

\* the tier of a hierarchy marker, "-" for any other line
TierOfMarker(s) ==
    IF Len(s) >= 5 /\ SubSeq(s, 1, 2) = "<<" /\ SubSeq(s, 5, 5) = ":"
       /\ SubSeq(s, 3, 4) \in Tiers
    THEN SubSeq(s, 3, 4) ELSE "-"

\* C20: the iteration that opens the content emits the synthetic marker
\* <<L1:RULESOFAPPLICATION>> and the line, and nothing else: the four tiers
\* stay unbound, and the line gets neither a code marker nor a marker of
\* its own tier, even when should_skip accepts it; every hierarchy marker
\* of tier k emitted afterwards comes with the binding of tier k to the
\* cleaned text of its line
C20_TransitionFrame ==
    [][ (IsIteration /\ config \in WellTyped) =>
          LET line == lines'[Len(lines')]
              a    == Analysis[config][line]
          IN  /\ (~content_started /\ content_started') =>
                   /\ output' = output \o << "<<L1:RULESOFAPPLICATION>>", line.text >>
                   /\ current_hierarchy = EmptyHierarchy
                   /\ current_hierarchy' = EmptyHierarchy
              /\ (content_started /\ Len(output') = Len(output) + 2
                  /\ TierOfMarker(output'[Len(output') - 1]) # "-") =>
                   /\ TierOfMarker(output'[Len(output') - 1]) = a.level
                   /\ current_hierarchy'[a.level] = a.header_text
                   /\ current_hierarchy'[a.level] # "" ]_vars

\* a heading stays unmarked before the content; the content is opened by
\* a line that should_skip accepts and that the L1 test accepts: it gets
\* the synthetic marker and the tiers stay unbound
C20_Witness ==
    /\ pc = "mark_text"
    /\ config = DefaultConfig
    /\ last.branch = "start"
    /\ lines = << TextLine("NEUROLOGY (01-1)", 120, TRUE),
                  TextLine("APRIL 1, 2024 RULES OF APPLICATION", 120, TRUE) >>
    /\ LastLine \in SkipLines[config]
    /\ Analysis[config][LastLine].level = "L1"
    /\ output = << "NEUROLOGY (01-1)", "<<L1:RULESOFAPPLICATION>>",
                   "APRIL 1, 2024 RULES OF APPLICATION" >>
    /\ current_hierarchy = EmptyHierarchy

\* on every line of the model the detector answers the same under a
\* configuration and under each of those that differ from it in the tier
\* pattern lists and the L3 font threshold only
TierFieldsIgnored ==
    \A cfg \in WellTyped : \A other \in TierVariants(cfg) : \A line \in LineSet :
        Analysis[other][line] = Analysis[cfg][line]

\* the configured lists are not idle by accident: compiled as
\* HierarchyDetector.__init__ compiles them, the default L3 list finds
\* 'text', which the other L3 list does not, and the other L1 list finds
\* 'Spine ..... B-12', which no default L1 expression does
ConfiguredListsDisagree ==
    /\ AnySearch(CompileAll(DefaultConfig.l3_patterns), "text", TRUE)
    /\ ~AnySearch(CompileAll(OtherTierFields.l3_patterns), "text", TRUE)
    /\ AnySearch(CompileAll(OtherTierFields.l1_patterns), "Spine ..... B-12", TRUE)
    /\ ~AnySearch(CompileAll(DefaultConfig.l1_patterns), "Spine ..... B-12", TRUE)

\* C21: l1_patterns, l2_patterns, l3_patterns and l3_min_font_size have no
\* influence on the classification: a second TextMarker, built on a
\* configuration that differs from the first in those fields only, gives
\* on the same list the same output, line by line
C21_TierFieldsHaveNoInfluence ==
    /\ TierFieldsIgnored
    /\ first_run # NoRun =>
         /\ config \in TierVariants(DefaultConfig)
         /\ \A f \in TierFields : config[f] # DefaultConfig[f]
         /\ Len(lines) <= Len(first_run.lines)
         /\ lines = SubSeq(first_run.lines, 1, Len(lines))
         /\ Len(output) <= Len(first_run.output)
         /\ output = SubSeq(first_run.output, 1, Len(output))
         /\ pc # "error"
         /\ (pc = "done" /\ Len(lines) = Len(first_run.lines)) => output = first_run.output

\* both calls have returned on a list with 'text', which only the default
\* L3 list finds, and 'Spine ..... B-12', which only the other L1 list
\* finds: the two outputs are the same
C21_Witness ==
    /\ pc = "done"
    /\ first_run # NoRun
    /\ config = WithTierFields(DefaultConfig, TierFields)
    /\ ConfiguredListsDisagree
    /\ Len(lines) = 4
    /\ lines[1].text = "RULES OF APPLICATION"
    /\ lines[2].text = "text"
    /\ lines[3].text = "Spine ..... B-12"
    /\ lines[4].text = "Incision"
    /\ first_run.lines = lines
    /\ output = first_run.output
    /\ output = << "<<L1:RULESOFAPPLICATION>>", "RULES OF APPLICATION", "text",
                   "<<L2:SPINE>>", "Spine ..... B-12", "<<L3:INCISION>>", "Incision" >>

====
